---- MODULE Spec2Model ----
(***************************************************************************)
(* A model of mochi-mcp: the response normalisation of the API client      *)
(* (src/src/mochi_mcp/api.py) and the tool/resource handlers of the MCP    *)
(* server (src/src/mochi_mcp/server.py).                                   *)
(*                                                                         *)
(* Python values are tagged records [t |-> type, v |-> value].  A str is   *)
(* a sequence of one-character strings, a list is a sequence of values, a  *)
(* dict is a function from keys to values.  Keys, tool names and exception *)
(* types are only ever compared with literals and are TLA+ strings.        *)
(***************************************************************************)
EXTENDS Integers, Sequences, FiniteSets, TLC

VARIABLES
    read_only,   \* create_server's switch, closed over by the handlers
    handler,     \* the handler that is running, "none" when idle
    pc,          \* "idle", "await" (suspended in a client call) or "done"
    tool_name,   \* call_tool's first parameter
    arguments,   \* call_tool's second parameter
    uri,         \* read_resource's parameter
    resources,   \* list_resources' accumulator
    cursor,      \* list_resources' cursor
    requests,    \* the upstream requests the invocation has issued, in order
    pending,     \* the client call the invocation is suspended in
    fetched,     \* history: the identifiable deck items the upstream delivered
    outcome,     \* history: how the invocation's last client call ended
    answered,    \* history: what the transport did with the last request
    inflight,    \* history: the requests handed to the transport and not answered
    result,      \* how the invocation ended: NoResult, Return(..) or Raise(..)
    data,        \* the parsed JSON handed to the normaliser
    key,         \* the collection name / item key handed to the normaliser
    parsed,      \* what the normaliser produced
    heap,        \* the dict objects of the parsed JSON, by address
    tasks,       \* the invocations that run concurrently, by task
    frames       \* the local variables of list_resources, by frame

vars == <<read_only, handler, pc, tool_name, arguments, uri, resources, cursor,
          requests, pending, fetched, outcome, answered, inflight, result,
          data, key, parsed, heap, tasks, frames>>

gatewayVars == <<read_only, handler, pc, tool_name, arguments, uri, resources,
                 cursor, requests, pending, fetched, outcome, answered, inflight,
                 result>>

normVars == <<data, key, parsed, heap>>

taskVars == <<tasks, frames>>

-----------------------------------------------------------------------------
(* Python values *)

None == [t |-> "null"]
Absent == [t |-> "absent"]          \* "no such key", never a value
JStr(s) == [t |-> "str", v |-> s]
JInt(n) == [t |-> "int", v |-> n]
JBool(b) == [t |-> "bool", v |-> b]
JFloat(tenths) == [t |-> "float", v |-> tenths]
JArr(a) == [t |-> "list", v |-> a]
JObj(o) == [t |-> "dict", v |-> o]

\* a dict from a record whose Absent fields are left out
MkObj(f) == JObj([k \in {j \in DOMAIN f : f[j] # Absent} |-> f[k]])

EmptyDict == JObj(<<>>)

\* isinstance(x, str)
IsStr(x) == x.t = "str"
\* isinstance(x, int): bool is a subclass of int
IsInt(x) == x.t \in {"int", "bool"}
\* isinstance(x, list)
IsList(x) == x.t = "list"
\* isinstance(x, Mapping)
IsMapping(x) == x.t = "dict"

\* bool(x)
Truthy(x) ==
    CASE x.t = "null" -> FALSE
      [] x.t = "bool" -> x.v
      [] x.t = "int" -> x.v # 0
      [] x.t = "float" -> x.v # 0
      [] x.t = "str" -> Len(x.v) > 0
      [] x.t = "list" -> Len(x.v) > 0
      [] x.t = "dict" -> DOMAIN x.v # {}
      [] OTHER -> FALSE

\* a or b
PyOr(a, b) == IF Truthy(a) THEN a ELSE b

\* k in m
Contains(m, k) == k \in DOMAIN m.v

\* m.get(k)
Get(m, k) == IF k \in DOMAIN m.v THEN m.v[k] ELSE None

\* [item for item in xs if isinstance(item, Mapping)]
MappingsOf(xs) == SelectSeq(xs, IsMapping)

\* how a call ends
NoResult == [kind |-> "none"]
Return(v) == [kind |-> "return", value |-> v]
\* an exception: its type, the fixed part of its message, the status code the
\* message carries (0 when it carries none) and the value formatted into it
RaiseWith(type, text, status, detail) ==
    [kind |-> "raise", exc |-> type,
     message |-> [text |-> text, status |-> status, detail |-> detail]]
Raise(type, text) == RaiseWith(type, text, 0, None)

Raised(r) == r.kind = "raise"
Returned(r) == r.kind = "return"

-----------------------------------------------------------------------------
(* Python strings and numbers *)

Digits == <<"0", "1", "2", "3", "4", "5", "6", "7", "8", "9">>

RECURSIVE DecimalDigits(_)
DecimalDigits(n) ==
    IF n < 10 THEN <<Digits[n + 1]>>
    ELSE DecimalDigits(n \div 10) \o <<Digits[(n % 10) + 1]>>

\* str(x) for the values the handlers format: str, int and bool
PyStr(x) ==
    CASE x.t = "str" -> x.v
      [] x.t = "bool" -> IF x.v THEN <<"T", "r", "u", "e">>
                         ELSE <<"F", "a", "l", "s", "e">>
      [] x.t = "int" -> IF x.v < 0 THEN <<"-">> \o DecimalDigits(0 - x.v)
                        ELSE DecimalDigits(x.v)

Whitespace == {" ", "\n", "\t"}

RECURSIVE LStrip(_, _)
LStrip(s, chars) ==
    IF s # <<>> /\ Head(s) \in chars THEN LStrip(Tail(s), chars) ELSE s

RECURSIVE RStrip(_, _)
RStrip(s, chars) ==
    IF s # <<>> /\ s[Len(s)] \in chars THEN RStrip(SubSeq(s, 1, Len(s) - 1), chars)
    ELSE s

\* s.strip()
Strip(s) == RStrip(LStrip(s, Whitespace), Whitespace)

DigitValue(c) == CHOOSE d \in 0..9 : Digits[d + 1] = c
IsDigit(c) == \E d \in 0..9 : Digits[d + 1] = c

RECURSIVE DigitsValue(_)
DigitsValue(s) ==
    IF s = <<>> THEN 0
    ELSE 10 * DigitsValue(SubSeq(s, 1, Len(s) - 1)) + DigitValue(s[Len(s)])

\* int(s) for ASCII input: surrounding whitespace, one optional sign, digits
PyInt(s) ==
    LET body == Strip(s)
        signed == body # <<>> /\ Head(body) \in {"+", "-"}
        digits == IF signed THEN Tail(body) ELSE body
    IN  IF digits # <<>> /\ \A i \in 1..Len(digits) : IsDigit(digits[i])
        THEN Return(JInt(IF signed /\ Head(body) = "-"
                         THEN 0 - DigitsValue(digits) ELSE DigitsValue(digits)))
        ELSE Raise("ValueError", "invalid literal for int()")

\* the position of the first element of s that is in chars, 0 when there is none
FirstOf(s, chars) ==
    IF \E i \in 1..Len(s) : s[i] \in chars
    THEN CHOOSE i \in 1..Len(s) : s[i] \in chars /\ \A j \in 1..(i - 1) : s[j] \notin chars
    ELSE 0

-----------------------------------------------------------------------------
(* api.py: the response normaliser *)

PaginatedResult(items, next_cursor) == [items |-> items, next_cursor |-> next_cursor]

\* api.py:177-180, the object the collection and the cursor are read from
container_of(d) ==
    LET data_field == Get(d, "data")
    IN  IF IsMapping(data_field) THEN data_field ELSE d

\* items_of with the literal "items" looked up before the collection name
items_of_items_first(potential_container, collection_name) ==
    IF Contains(potential_container, "items")
       /\ IsList(potential_container.v["items"])
    THEN MappingsOf(potential_container.v["items"].v)
    ELSE IF Contains(potential_container, collection_name)
            /\ IsList(potential_container.v[collection_name])
    THEN MappingsOf(potential_container.v[collection_name].v)
    ELSE <<>>

\* api.py:182-185
items_of(potential_container, collection_name) ==
    IF Contains(potential_container, collection_name)
       /\ IsList(potential_container.v[collection_name])
    THEN MappingsOf(potential_container.v[collection_name].v)
    ELSE IF Contains(potential_container, "items")
            /\ IsList(potential_container.v["items"])
    THEN MappingsOf(potential_container.v["items"].v)
    ELSE <<>>

\* cursor_value_of with the two keys in the other order
cursor_value_of_cursor_first(potential_container) ==
    PyOr(Get(potential_container, "cursor"), Get(potential_container, "nextCursor"))

\* api.py:187
cursor_value_of(potential_container) ==
    PyOr(Get(potential_container, "nextCursor"), Get(potential_container, "cursor"))

\* api.py:188-189
next_cursor_of(cursor_value) ==
    IF IsStr(cursor_value) /\ Truthy(cursor_value) THEN cursor_value ELSE None

\* page_of_scalar rejecting the input the way _parse_item does
page_of_scalar_raises(d) ==
    Raise("MochiAPIError", "Unexpected response format from Mochi API")

\* api.py:191, the page of an input that is neither a list nor a mapping
page_of_scalar(d) == Return(PaginatedResult(<<>>, None))

_parse_paginated(d, collection_name) ==
    IF IsList(d) THEN Return(PaginatedResult(MappingsOf(d.v), None))
    ELSE IF IsMapping(d) THEN
        LET potential_container == container_of(d)
        IN  Return(PaginatedResult(items_of(potential_container, collection_name),
                                   next_cursor_of(cursor_value_of(potential_container))))
    ELSE page_of_scalar(d)

\* _parse_item looking into "data" before the top-level key
_parse_item_data_first(d, k) ==
    IF IsMapping(d) /\ IsMapping(Get(d, "data")) THEN
        LET data_field == Get(d, "data")
        IN  IF Contains(data_field, k) /\ IsMapping(data_field.v[k])
            THEN Return(data_field.v[k])
            ELSE Return(data_field)
    ELSE IF IsMapping(d) /\ Contains(d, k) /\ IsMapping(d.v[k]) THEN Return(d.v[k])
    ELSE IF IsMapping(d) THEN Return(d)
    ELSE Raise("MochiAPIError", "Unexpected response format from Mochi API")

_parse_item(d, k) ==
    IF IsMapping(d) /\ Contains(d, k) /\ IsMapping(d.v[k]) THEN Return(d.v[k])
    ELSE IF IsMapping(d) /\ IsMapping(Get(d, "data")) THEN
        LET data_field == Get(d, "data")
        IN  IF Contains(data_field, k) /\ IsMapping(data_field.v[k])
            THEN Return(data_field.v[k])
            ELSE Return(data_field)
    ELSE IF IsMapping(d) THEN Return(d)
    ELSE Raise("MochiAPIError", "Unexpected response format from Mochi API")

-----------------------------------------------------------------------------
(* api.py: the client methods, one HTTP request each *)

DECKS == <<"/", "d", "e", "c", "k", "s">>
NOTES == <<"/", "n", "o", "t", "e", "s">>

\* a body that is not JSON, with its text
NotJson(text) == [t |-> "invalid", v |-> text]

\* what self._client.request does: it raises httpx.HTTPError or returns a response
HTTPError == [kind |-> "http_error"]
Response(status_code, body) ==
    [kind |-> "response", status_code |-> status_code, body |-> body]

\* the arguments of self._client.request
Request(method, path, params, json) ==
    [method |-> method, path |-> path, params |-> params, json |-> json]

\* the client methods as the handlers call them
ListDecksCall(c, l) == [op |-> "list_decks", cursor |-> c, limit |-> l]
GetDeckCall(id) == [op |-> "get_deck", deck_id |-> id]
ListNotesCall(d, c, l, q) ==
    [op |-> "list_notes", deck_id |-> d, cursor |-> c, limit |-> l, query |-> q]
GetNoteCall(id) == [op |-> "get_note", note_id |-> id]
CreateDeckCall(payload) == [op |-> "create_deck", payload |-> payload]
UpdateDeckCall(id, payload) == [op |-> "update_deck", deck_id |-> id, payload |-> payload]
DeleteDeckCall(id) == [op |-> "delete_deck", deck_id |-> id]
CreateNoteCall(payload) == [op |-> "create_note", payload |-> payload]
UpdateNoteCall(id, payload) == [op |-> "update_note", note_id |-> id, payload |-> payload]
DeleteNoteCall(id) == [op |-> "delete_note", note_id |-> id]

\* `if x: params[k] = x`
IfTruthy(x) == IF Truthy(x) THEN x ELSE Absent

\* the request each client method hands to _request
request_of(call) ==
    CASE call.op = "list_decks" ->
            Request("GET", DECKS,
                    MkObj([cursor |-> IfTruthy(call.cursor),
                           limit |-> IfTruthy(call.limit)]), Absent)
      [] call.op = "get_deck" ->
            Request("GET", DECKS \o <<"/">> \o call.deck_id.v, EmptyDict, Absent)
      [] call.op = "list_notes" ->
            Request("GET", NOTES,
                    MkObj([deckId |-> IfTruthy(call.deck_id),
                           cursor |-> IfTruthy(call.cursor),
                           limit |-> IfTruthy(call.limit),
                           query |-> IfTruthy(call.query)]), Absent)
      [] call.op = "get_note" ->
            Request("GET", NOTES \o <<"/">> \o call.note_id.v, EmptyDict, Absent)
      [] call.op = "create_deck" ->
            Request("POST", DECKS, EmptyDict, call.payload)
      [] call.op = "update_deck" ->
            Request("PATCH", DECKS \o <<"/">> \o call.deck_id.v, EmptyDict, call.payload)
      [] call.op = "delete_deck" ->
            Request("DELETE", DECKS \o <<"/">> \o call.deck_id.v, EmptyDict, Absent)
      [] call.op = "create_note" ->
            Request("POST", NOTES, EmptyDict, call.payload)
      [] call.op = "update_note" ->
            Request("PATCH", NOTES \o <<"/">> \o call.note_id.v, EmptyDict, call.payload)
      [] call.op = "delete_note" ->
            Request("DELETE", NOTES \o <<"/">> \o call.note_id.v, EmptyDict, Absent)

\* requests_of with the request sent a second time
requests_of_twice(call) == <<request_of(call), request_of(call)>>

\* the requests one client method hands to the transport: it awaits _request
\* once, and _request calls self._client.request once
requests_of(call) == <<request_of(call)>>

\* the message of the error raised for a response with an error status
_extract_error_message(response) ==
    IF response.body.t = "invalid"
    THEN [text |-> "Mochi API error", status |-> response.status_code,
          detail |-> JStr(Strip(response.body.v))]
    ELSE LET d == response.body
             strs == IF IsMapping(d)
                     THEN SelectSeq(<<"message", "error", "detail">>,
                                    LAMBDA k : IsStr(Get(d, k)))
                     ELSE <<>>
         IN  [text |-> "Mochi API error", status |-> response.status_code,
              detail |-> IF strs # <<>> THEN Get(d, Head(strs)) ELSE None]

\* MochiClient._request, given what the transport did
_request(response) ==
    IF response.kind = "http_error"
    THEN Raise("MochiAPIError", "HTTP error communicating with Mochi")
    ELSE IF response.status_code >= 400
    THEN [kind |-> "raise", exc |-> "MochiAPIError",
          message |-> _extract_error_message(response)]
    ELSE Return(response)

\* MochiClient._json
_json(response) ==
    IF response.body.t = "invalid"
    THEN Raise("MochiAPIError", "Mochi API returned invalid JSON")
    ELSE Return(response.body)

\* the key each client method normalises the JSON with
parse_key(call) ==
    CASE call.op = "list_decks" -> "decks"
      [] call.op = "list_notes" -> "notes"
      [] call.op \in {"get_deck", "create_deck", "update_deck"} -> "deck"
      [] call.op \in {"get_note", "create_note", "update_note"} -> "note"

\* what a client method returns or raises once the transport has answered
client_result(call, response) ==
    LET got == _request(response)
    IN  IF Raised(got) THEN got
        ELSE IF call.op \in {"delete_deck", "delete_note"} THEN Return(None)
        ELSE LET json == _json(got.value)
             IN  IF Raised(json) THEN json
                 ELSE IF call.op \in {"list_decks", "list_notes"}
                 THEN _parse_paginated(json.value, parse_key(call))
                 ELSE _parse_item(json.value, parse_key(call))

\* PaginatedResult.to_payload
to_payload(page, collection_name) ==
    JObj([k \in {collection_name}
                \cup (IF Truthy(page.next_cursor) THEN {"nextCursor"} ELSE {}) |->
            IF k = "nextCursor" THEN page.next_cursor ELSE JArr(page.items)])

-----------------------------------------------------------------------------
(* server.py: argument helpers *)

\* the field name an error message quotes
FieldName(field) == [t |-> "field", v |-> field]

_optional_str(value) ==
    IF (IsStr(value) \/ IsInt(value)) /\ value # JStr(<<>>)
    THEN JStr(PyStr(value)) ELSE None

_optional_int(value) ==
    IF IsInt(value) THEN Return(value)
    ELSE IF IsStr(value) /\ Strip(value.v) # <<>> THEN
        LET n == PyInt(value.v)
        IN  IF Raised(n)
            THEN RaiseWith("ValueError", "Expected integer, received", 0, value)
            ELSE n
    ELSE Return(None)

_require_str(args, field) ==
    LET value == Get(args, field)
    IN  IF IsStr(value) /\ Truthy(value) THEN Return(value)
        ELSE IF IsInt(value) THEN Return(JStr(PyStr(value)))
        ELSE RaiseWith("ValueError", "Field is required and must be a string",
                       0, FieldName(field))

_require_mapping(args, field) ==
    LET value == Get(args, field)
    IN  IF IsMapping(value) THEN Return(value)
        ELSE RaiseWith("ValueError",
                       "Field must be an object containing fields to send to Mochi",
                       0, FieldName(field))

\* a.update(b) on a copy of a
Update(a, b) ==
    JObj([k \in DOMAIN a.v \cup DOMAIN b.v |->
            IF k \in DOMAIN b.v THEN b.v[k] ELSE a.v[k]])

-----------------------------------------------------------------------------
(* server.py: call_tool *)

ReadTools == <<"list_decks", "get_deck", "list_notes", "get_note">>
WriteTools == <<"create_deck", "update_deck", "delete_deck",
                "create_note", "update_note", "delete_note">>

\* the name of a tool in an error message
ToolName(name) == [t |-> "tool", v |-> name]

UnknownTool(name) == RaiseWith("MochiAPIError", "Unknown tool", 0, ToolName(name))

\* the handler suspends in a client call
Await(call) == [kind |-> "await", call |-> call]

\* server.py:271-292, the first match statement up to the client call
read_tool_begin(name, args) ==
    CASE name = "list_decks" ->
            LET limit == _optional_int(Get(args, "limit"))
            IN  IF Raised(limit) THEN limit
                ELSE Await(ListDecksCall(_optional_str(Get(args, "cursor")), limit.value))
      [] name = "get_deck" ->
            LET deck_id == _require_str(args, "deck_id")
            IN  IF Raised(deck_id) THEN deck_id ELSE Await(GetDeckCall(deck_id.value))
      [] name = "list_notes" ->
            LET limit == _optional_int(Get(args, "limit"))
            IN  IF Raised(limit) THEN limit
                ELSE Await(ListNotesCall(_optional_str(Get(args, "deck_id")),
                                         _optional_str(Get(args, "cursor")),
                                         limit.value,
                                         _optional_str(Get(args, "query"))))
      [] name = "get_note" ->
            LET note_id == _require_str(args, "note_id")
            IN  IF Raised(note_id) THEN note_id ELSE Await(GetNoteCall(note_id.value))

\* server.py:298-309
create_deck_begin(args) ==
    LET name == _require_str(args, "name")
        description == _optional_str(Get(args, "description"))
        parent == _optional_str(Get(args, "parent_deck_id"))
        fields == _require_mapping(args, "fields")
    IN  IF Raised(name) THEN name
        ELSE LET payload == MkObj([name |-> name.value,
                                   description |-> IfTruthy(description),
                                   parentDeckId |-> IfTruthy(parent)])
             IN  IF Contains(args, "fields")
                 THEN IF Raised(fields) THEN fields
                      ELSE Await(CreateDeckCall(Update(payload, fields.value)))
                 ELSE Await(CreateDeckCall(payload))

\* server.py:310-314
update_deck_begin(args) ==
    LET deck_id == _require_str(args, "deck_id")
        fields == _require_mapping(args, "fields")
    IN  IF Raised(deck_id) THEN deck_id
        ELSE IF Raised(fields) THEN fields
        ELSE Await(UpdateDeckCall(deck_id.value, fields.value))

\* server.py:315-318
delete_deck_begin(args) ==
    LET deck_id == _require_str(args, "deck_id")
    IN  IF Raised(deck_id) THEN deck_id ELSE Await(DeleteDeckCall(deck_id.value))

\* server.py:326-330
update_note_begin(args) ==
    LET note_id == _require_str(args, "note_id")
        fields == _require_mapping(args, "fields")
    IN  IF Raised(note_id) THEN note_id
        ELSE IF Raised(fields) THEN fields
        ELSE Await(UpdateNoteCall(note_id.value, fields.value))

\* server.py:331-334
delete_note_begin(args) ==
    LET note_id == _require_str(args, "note_id")
    IN  IF Raised(note_id) THEN note_id ELSE Await(DeleteNoteCall(note_id.value))

\* create_note_begin with the deckId of fields kept over the deck_id argument
create_note_begin_fields_win(args) ==
    LET deck_id == _require_str(args, "deck_id")
        fields == _require_mapping(args, "fields")
    IN  IF Raised(deck_id) THEN deck_id
        ELSE IF Raised(fields) THEN fields
        ELSE Await(CreateNoteCall(Update(JObj([deckId |-> deck_id.value]), fields.value)))

\* server.py:319-325
create_note_begin(args) ==
    LET deck_id == _require_str(args, "deck_id")
        fields == _require_mapping(args, "fields")
    IN  IF Raised(deck_id) THEN deck_id
        ELSE IF Raised(fields) THEN fields
        ELSE Await(CreateNoteCall(Update(fields.value, JObj([deckId |-> deck_id.value]))))

\* server.py:297-336, the second match statement up to the client call
write_tool_begin(name, args) ==
    CASE name = "create_deck" -> create_deck_begin(args)
      [] name = "update_deck" -> update_deck_begin(args)
      [] name = "delete_deck" -> delete_deck_begin(args)
      [] name = "create_note" -> create_note_begin(args)
      [] name = "update_note" -> update_note_begin(args)
      [] name = "delete_note" -> delete_note_begin(args)
      [] OTHER -> UnknownTool(name)

\* read_only_gate that lets every tool name through
read_only_gate_open(ro, name, args) == write_tool_begin(name, args)

\* server.py:294-295
read_only_gate(ro, name, args) ==
    IF ro THEN UnknownTool(name) ELSE write_tool_begin(name, args)

\* call_tool from its entry to its first await or to the exception it raises
call_tool_begin(ro, name, args) ==
    IF \E i \in 1..Len(ReadTools) : ReadTools[i] = name
    THEN read_tool_begin(name, args)
    ELSE read_only_gate(ro, name, args)

\* call_tool from the return of its client call to its end
call_tool_resume(call, got) ==
    IF Raised(got) THEN got
    ELSE CASE call.op = "list_decks" -> Return(to_payload(got.value, "decks"))
           [] call.op = "list_notes" -> Return(to_payload(got.value, "notes"))
           [] call.op \in {"get_deck", "create_deck", "update_deck"} ->
                 Return(JObj([deck |-> got.value]))
           [] call.op \in {"get_note", "create_note", "update_note"} ->
                 Return(JObj([note |-> got.value]))
           [] call.op = "delete_deck" ->
                 Return(JObj([status |-> JStr(<<"d", "e", "l", "e", "t", "e", "d">>),
                              deck_id |-> call.deck_id]))
           [] call.op = "delete_note" ->
                 Return(JObj([status |-> JStr(<<"d", "e", "l", "e", "t", "e", "d">>),
                              note_id |-> call.note_id]))

\* list_tools with the write tools listed in either mode
list_tools_all(ro) == ReadTools \o WriteTools

\* list_tools: the names of the tools it returns
list_tools(ro) == IF ro THEN ReadTools ELSE ReadTools \o WriteTools

-----------------------------------------------------------------------------
(* server.py: resource URIs and read_resource *)

LowerLetters == <<"a", "b", "c", "d", "e", "f", "g", "h", "i", "j", "k", "l", "m",
                  "n", "o", "p", "q", "r", "s", "t", "u", "v", "w", "x", "y", "z">>
UpperLetters == <<"A", "B", "C", "D", "E", "F", "G", "H", "I", "J", "K", "L", "M",
                  "N", "O", "P", "Q", "R", "S", "T", "U", "V", "W", "X", "Y", "Z">>

IsAlpha(c) == \E i \in 1..26 : LowerLetters[i] = c \/ UpperLetters[i] = c

\* c.lower()
LowerChar(c) ==
    IF \E i \in 1..26 : UpperLetters[i] = c
    THEN LowerLetters[CHOOSE i \in 1..26 : UpperLetters[i] = c]
    ELSE c

Lower(s) == [i \in 1..Len(s) |-> LowerChar(s[i])]

\* urllib.parse.scheme_chars
IsSchemeChar(c) == IsAlpha(c) \/ IsDigit(c) \/ c \in {"+", "-", "."}

\* s[i:] with i counted from 1
From(s, i) == SubSeq(s, i, Len(s))
\* s[:i - 1] with i counted from 1
Before(s, i) == SubSeq(s, 1, i - 1)

\* s cut in two before position i, whole when i is 0
CutBefore(s, i) ==
    IF i = 0 THEN [head |-> s, rest |-> <<>>]
    ELSE [head |-> Before(s, i), rest |-> From(s, i)]

\* s.split(c, 1) when c is in s: the parts around the element at position i
SplitAt(s, i) ==
    IF i = 0 THEN [head |-> s, rest |-> <<>>]
    ELSE [head |-> Before(s, i), rest |-> From(s, i + 1)]

\* urlsplit: the scheme is what precedes the first colon, when that is a letter
\* followed by scheme characters only
HasScheme(url, colon) ==
    /\ colon > 1
    /\ IsAlpha(url[1])
    /\ \A j \in 1..(colon - 1) : IsSchemeChar(url[j])

SplitScheme(url, colon) ==
    IF HasScheme(url, colon)
    THEN [head |-> Lower(Before(url, colon)), rest |-> From(url, colon + 1)]
    ELSE [head |-> <<>>, rest |-> url]

\* urlsplit: after "//" the netloc runs up to the first of / ? #
SplitNetloc(rest) ==
    IF Len(rest) >= 2 /\ rest[1] = "/" /\ rest[2] = "/"
    THEN CutBefore(From(rest, 3), FirstOf(From(rest, 3), {"/", "?", "#"}))
    ELSE [head |-> <<>>, rest |-> rest]

ParseResult(scheme, netloc, path, query, fragment) ==
    [scheme |-> scheme, netloc |-> netloc, path |-> path,
     query |-> query, fragment |-> fragment]

\* urlsplit: the query follows the first "?" of what precedes the fragment
SplitQuery(scheme, netloc, fragmented) ==
    ParseResult(scheme, netloc,
                SplitAt(fragmented.head, FirstOf(fragmented.head, {"?"})).head,
                SplitAt(fragmented.head, FirstOf(fragmented.head, {"?"})).rest,
                fragmented.rest)

\* urlsplit: the fragment follows the first "#"
SplitFragment(scheme, located) ==
    SplitQuery(scheme, located.head,
               SplitAt(located.rest, FirstOf(located.rest, {"#"})))

SplitRest(schemed) == SplitFragment(schemed.head, SplitNetloc(schemed.rest))

\* urllib.parse.urlparse for a URL over letters, digits and : / ? # + - .
\* (a scheme outside uses_params, so no ;parameters are split off)
urlparse(url) == SplitRest(SplitScheme(url, FirstOf(url, {":"})))

MOCHI == <<"m", "o", "c", "h", "i">>
DECK == <<"d", "e", "c", "k">>
NOTE == <<"n", "o", "t", "e">>

_ParsedResourceUri(kind, identifier) == [kind |-> kind, identifier |-> identifier]

\* _parse_resource_uri without the test of the scheme
_parse_resource_uri_any_scheme(u) ==
    LET parsed_url == urlparse(u)
        identifier == LStrip(parsed_url.path, {"/"})
    IN  IF parsed_url.netloc = <<>>
        THEN RaiseWith("ValueError", "Unsupported Mochi resource URI", 0, JStr(u))
        ELSE IF identifier = <<>>
        THEN RaiseWith("ValueError", "Missing identifier in resource URI", 0, JStr(u))
        ELSE Return(_ParsedResourceUri(parsed_url.netloc, identifier))

_parse_resource_uri(u) ==
    LET parsed_url == urlparse(u)
        identifier == LStrip(parsed_url.path, {"/"})
    IN  IF parsed_url.scheme # MOCHI \/ parsed_url.netloc = <<>>
        THEN RaiseWith("ValueError", "Unsupported Mochi resource URI", 0, JStr(u))
        ELSE IF identifier = <<>>
        THEN RaiseWith("ValueError", "Missing identifier in resource URI", 0, JStr(u))
        ELSE Return(_ParsedResourceUri(parsed_url.netloc, identifier))

\* read_resource from its entry to its await or to the exception it raises
read_resource_begin(u) ==
    LET parsed_uri == _parse_resource_uri(u)
    IN  IF Raised(parsed_uri) THEN parsed_uri
        ELSE IF parsed_uri.value.kind = DECK
        THEN Await(GetDeckCall(JStr(parsed_uri.value.identifier)))
        ELSE IF parsed_uri.value.kind = NOTE
        THEN Await(GetNoteCall(JStr(parsed_uri.value.identifier)))
        ELSE RaiseWith("ValueError", "Unsupported resource URI", 0, JStr(u))

\* json.dumps(payload, indent=2, sort_keys=True): the text that serialises payload
JsonText(payload) == [t |-> "json_text", v |-> payload]

\* read_resource from the return of its client call to its end
read_resource_resume(got) ==
    IF Raised(got) THEN got
    ELSE Return([content |-> JsonText(got.value), mime_type |-> "application/json"])

-----------------------------------------------------------------------------
(* The normaliser on its own: every input of a bounded set of JSON values *)

Obj1 == JObj([id |-> JStr(<<"d", "1">>)])
Obj2 == JObj([id |-> JInt(2), name |-> JStr(<<"B">>)])

\* lists of mixed object / non-object elements
Arrays ==
    { <<>>,
      <<Obj1>>,
      <<Obj2, JInt(7), Obj1>>,
      <<JStr(<<"s">>), None, JArr(<<Obj1>>)>>,
      <<EmptyDict, JBool(TRUE), Obj2>> }

Scalars == { None, JBool(TRUE), JBool(FALSE), JInt(0), JInt(42), JFloat(15),
             JStr(<<>>), JStr(<<"s">>) }

\* what may sit under the collection key and under "items"
CollectionValues ==
    {Absent, None, JStr(<<"s">>), Obj1} \cup {JArr(a) : a \in Arrays}
ItemsValues ==
    {Absent, JInt(7), JArr(<<>>), JArr(<<Obj2, JInt(7), Obj1>>)}

\* what may sit under "nextCursor" and under "cursor"
NextCursorValues ==
    { Absent, None, JStr(<<>>), JStr(<<"x">>), JInt(0), JInt(5), JBool(FALSE),
      JBool(TRUE), JFloat(0), JArr(<<>>), JArr(<<JInt(1)>>), EmptyDict, Obj1 }
CursorValues ==
    { Absent, None, JStr(<<>>), JStr(<<"y">>), JInt(5) }

PageContainers ==
    { MkObj([decks |-> c, items |-> i, nextCursor |-> n, cursor |-> k]) :
        c \in CollectionValues, i \in ItemsValues,
        n \in NextCursorValues, k \in CursorValues }

\* the envelopes around a container: bare, under "data", under "data" next to
\* top-level fields of its own, and next to a "data" that is no object
PageInputs ==
    PageContainers
    \cup { JObj([data |-> c]) : c \in PageContainers }
    \cup { JObj([data |-> c, decks |-> JArr(<<Obj2>>), cursor |-> JStr(<<"z">>)]) :
             c \in PageContainers }
    \cup { JObj([k \in DOMAIN c.v \cup {"data"} |->
                   IF k = "data" THEN JStr(<<"s">>) ELSE c.v[k]]) :
             c \in PageContainers }

\* what may sit under the item key
ItemValues == { Absent, None, JStr(<<"s">>), JArr(<<Obj1>>), EmptyDict, Obj1 }

ItemInputs ==
    { MkObj([deck |-> a, data |-> b, id |-> c]) :
        a \in ItemValues,
        b \in {Absent, None, JInt(7), JArr(<<Obj2>>)}
              \cup { MkObj([deck |-> e, id |-> f]) :
                       e \in ItemValues, f \in {Absent, JInt(9)} },
        c \in {Absent, JInt(3)} }

Inputs == PageInputs \cup ItemInputs \cup Scalars \cup {JArr(a) : a \in Arrays}

Keys == {"decks", "deck", "items", "data", "notes"}

NotParsed == [op |-> "none"]

\* no object is tracked by address
NoHeap == <<>>

NoCall == [op |-> "none"]

\* the transport has not answered
NoResponse == [kind |-> "none"]

\* one invocation at a time: no task and no frame is tracked
NoTasks == <<>>
NoFrames == <<>>

TasksUnused ==
    /\ tasks = NoTasks
    /\ frames = NoFrames

\* the server is not running while the normaliser is exercised alone
GatewayUnused ==
    /\ read_only = TRUE
    /\ handler = "none"
    /\ pc = "idle"
    /\ tool_name = "none"
    /\ arguments = EmptyDict
    /\ uri = <<>>
    /\ resources = <<>>
    /\ cursor = None
    /\ requests = <<>>
    /\ pending = NoCall
    /\ fetched = <<>>
    /\ outcome = NoResult
    /\ answered = NoResponse
    /\ inflight = 0
    /\ result = NoResult

NormInit ==
    /\ GatewayUnused
    /\ TasksUnused
    /\ data \in Inputs
    /\ key \in Keys
    /\ parsed = NotParsed
    /\ heap = NoHeap

\* MochiClient._parse_paginated(data, key)
ParsePaginated ==
    /\ parsed = NotParsed
    /\ parsed' = [op |-> "_parse_paginated", out |-> _parse_paginated(data, key)]
    /\ UNCHANGED <<data, key, heap>>
    /\ UNCHANGED <<gatewayVars, taskVars>>

\* MochiClient._parse_item(data, key)
ParseItem ==
    /\ parsed = NotParsed
    /\ parsed' = [op |-> "_parse_item", out |-> _parse_item(data, key)]
    /\ UNCHANGED <<data, key, heap>>
    /\ UNCHANGED <<gatewayVars, taskVars>>

NormNext == ParsePaginated \/ ParseItem

NormSpec == NormInit /\ [][NormNext]_vars

-----------------------------------------------------------------------------
(* The server: one invocation at a time, suspended while the upstream answers *)

Str_d1 == JStr(<<"d", "1">>)
Str_n1 == JStr(<<"n", "1">>)

\* the tool names a caller may send
ToolNames ==
    {ReadTools[i] : i \in 1..Len(ReadTools)}
    \cup {WriteTools[i] : i \in 1..Len(WriteTools)}
    \cup {"export_deck"}

FieldsValues ==
    { Absent,
      JObj([front |-> JStr(<<"x">>)]),
      JObj([front |-> JStr(<<"x">>), deckId |-> JStr(<<"z", "z">>)]),
      JStr(<<"x">>),
      JArr(<<JObj([front |-> JStr(<<"x">>)])>>) }

DeckIdValues == {Absent, Str_d1, JStr(<<>>), JInt(7), JBool(TRUE), JArr(<<>>)}
NoteIdValues == {Absent, Str_n1, JInt(0), None}
NameValues == {Absent, JStr(<<"B">>), JStr(<<>>), JFloat(15)}

\* argument objects that vary the fields the tools require ...
RequiredArguments ==
    { MkObj([deck_id |-> d, fields |-> f]) : d \in DeckIdValues, f \in FieldsValues }
    \cup { MkObj([note_id |-> n, fields |-> f]) : n \in NoteIdValues, f \in FieldsValues }
    \cup { MkObj([name |-> m, fields |-> f]) : m \in NameValues, f \in FieldsValues }
    \cup { MkObj([deck_id |-> d, note_id |-> n, name |-> JStr(<<"B">>)]) :
             d \in {Str_d1, JInt(7)}, n \in {Str_n1, None} }

\* ... and argument objects that vary the optional ones
OptionalArguments ==
    { MkObj([deck_id |-> d, cursor |-> c, limit |-> l, query |-> q]) :
        d \in {Absent, Str_d1},
        c \in {Absent, JStr(<<"c", "1">>)},
        l \in {Absent, JInt(50), JInt(0), JStr(<<" ", "1", "0">>), JStr(<<"a", "b">>)},
        q \in {Absent, JStr(<<"q">>)} }
    \cup { MkObj([name |-> JStr(<<"B">>), description |-> e, parent_deck_id |-> r,
                  fields |-> f]) :
             e \in {Absent, JStr(<<"e">>)},
             r \in {Absent, JInt(3)},
             f \in {Absent, JObj([name |-> JStr(<<"C">>)])} }

ArgumentObjects == RequiredArguments \cup OptionalArguments

\* what the transport may do with a request
Responses ==
    { HTTPError,
      Response(200, JObj([deck |-> Obj1])),
      Response(200, JObj([data |-> JObj([note |-> Obj2])])),
      Response(200, JObj([decks |-> JArr(<<Obj1, JInt(7)>>),
                          nextCursor |-> JStr(<<"c", "2">>)])),
      Response(200, JInt(42)),
      Response(200, NotJson(<<"o", "o", "p", "s">>)),
      Response(204, NotJson(<<>>)),
      Response(302, JObj([deck |-> Obj1])),
      Response(404, JObj([error |-> JStr(<<"N", "o">>)])),
      Response(404, NotJson(<<" ", "o", "o", "p", "s", "\n">>)),
      Response(500, JObj([deck |-> Obj1])),
      Response(500, JInt(42)) }

\* resource URIs: a scheme part, an authority part and the rest
UriSchemes == { <<>>, MOCHI \o <<":">>, <<"M">> \o Tail(MOCHI) \o <<":">>,
                <<"h", "t", "t", "p", ":">> }
UriAuthorities == { <<>>, <<"/", "/">>, <<"/", "/">> \o DECK, <<"/", "/">> \o NOTE,
                    <<"/", "/", "c", "a", "r", "d">> }
UriRests == { <<>>, <<"/">>, <<"/", "d", "1">>, <<"/", "/", "d", "1">>,
              <<"/", "a", "/", "b">>, <<"/", "d", "1", "?", "q">>,
              <<"?", "q", "/", "d", "1">>, <<"/", "d", "1", "#", "f">> }
Uris == { a \o b \o c : a \in UriSchemes, b \in UriAuthorities, c \in UriRests }

NormUnused ==
    /\ data = None
    /\ key = "none"
    /\ parsed = NotParsed
    /\ heap = NoHeap

Idle ==
    /\ handler = "none"
    /\ pc = "idle"
    /\ tool_name = "none"
    /\ arguments = EmptyDict
    /\ uri = <<>>
    /\ resources = <<>>
    /\ cursor = None
    /\ requests = <<>>
    /\ pending = NoCall
    /\ fetched = <<>>
    /\ outcome = NoResult
    /\ answered = NoResponse
    /\ inflight = 0
    /\ result = NoResult

Init ==
    /\ read_only \in BOOLEAN
    /\ Idle
    /\ NormUnused
    /\ TasksUnused

\* how a client call ended, the value it returned left out
Outcome(r) == IF Returned(r) THEN [kind |-> "return"] ELSE r

\* a handler that is not list_resources runs up to its client call: it either
\* raises, or hands one request to the transport and suspends
Begin(step) ==
    /\ resources' = <<>>
    /\ cursor' = None
    /\ fetched' = <<>>
    /\ outcome' = NoResult
    /\ answered' = NoResponse
    /\ IF step.kind = "await"
       THEN /\ pc' = "await"
            /\ pending' = step.call
            /\ requests' = requests_of(step.call)
            /\ inflight' = Len(requests_of(step.call))
            /\ result' = NoResult
       ELSE /\ pc' = "done"
            /\ pending' = NoCall
            /\ requests' = <<>>
            /\ inflight' = 0
            /\ result' = step

\* the framework calls call_tool(name, args)
CallTool ==
    /\ pc = "idle"
    /\ \E name \in ToolNames, args \in ArgumentObjects :
        /\ handler' = "call_tool"
        /\ tool_name' = name
        /\ arguments' = args
        /\ Begin(call_tool_begin(read_only, name, args))
    /\ UNCHANGED <<read_only, uri>>
    /\ UNCHANGED <<normVars, taskVars>>

\* the transport answers the request call_tool is suspended in
CallToolResumes ==
    /\ pc = "await"
    /\ handler = "call_tool"
    /\ \E response \in Responses :
        /\ answered' = response
        /\ outcome' = Outcome(client_result(pending, response))
        /\ result' = call_tool_resume(pending, client_result(pending, response))
    /\ inflight' = inflight - 1
    /\ pc' = "done"
    /\ pending' = NoCall
    /\ UNCHANGED <<read_only, handler, tool_name, arguments, uri, resources, cursor,
                   requests, fetched>>
    /\ UNCHANGED <<normVars, taskVars>>

\* the framework calls read_resource(u)
ReadResource ==
    /\ pc = "idle"
    /\ \E u \in Uris :
        /\ handler' = "read_resource"
        /\ uri' = u
        /\ Begin(read_resource_begin(u))
    /\ UNCHANGED <<read_only, tool_name, arguments>>
    /\ UNCHANGED <<normVars, taskVars>>

\* the transport answers the request read_resource is suspended in
ReadResourceResumes ==
    /\ pc = "await"
    /\ handler = "read_resource"
    /\ \E response \in Responses :
        /\ answered' = response
        /\ outcome' = Outcome(client_result(pending, response))
        /\ result' = read_resource_resume(client_result(pending, response))
    /\ inflight' = inflight - 1
    /\ pc' = "done"
    /\ pending' = NoCall
    /\ UNCHANGED <<read_only, handler, tool_name, arguments, uri, resources, cursor,
                   requests, fetched>>
    /\ UNCHANGED <<normVars, taskVars>>

\* the framework calls list_tools()
ListTools ==
    /\ pc = "idle"
    /\ handler' = "list_tools"
    /\ pc' = "done"
    /\ result' = Return(list_tools(read_only))
    /\ UNCHANGED <<read_only, tool_name, arguments, uri, resources, cursor, requests,
                   pending, fetched, outcome, answered, inflight>>
    /\ UNCHANGED <<normVars, taskVars>>

\* the framework has taken the handler's result; the server awaits the next call
Finish ==
    /\ pc = "done"
    /\ handler' = "none"
    /\ pc' = "idle"
    /\ tool_name' = "none"
    /\ arguments' = EmptyDict
    /\ uri' = <<>>
    /\ resources' = <<>>
    /\ cursor' = None
    /\ requests' = <<>>
    /\ pending' = NoCall
    /\ fetched' = <<>>
    /\ outcome' = NoResult
    /\ answered' = NoResponse
    /\ inflight' = 0
    /\ result' = NoResult
    /\ UNCHANGED read_only
    /\ UNCHANGED <<normVars, taskVars>>

Next ==
    \/ CallTool
    \/ CallToolResumes
    \/ ReadResource
    \/ ReadResourceResumes
    \/ ListTools
    \/ Finish

Spec == Init /\ [][Next]_vars

-----------------------------------------------------------------------------
(* Properties of the normaliser, stated on the JSON input alone *)

IsObject(x) == x.t = "dict"
IsArray(x) == x.t = "list"
HasKey(x, k) == IsObject(x) /\ k \in DOMAIN x.v
NonEmptyString(x) == x.t = "str" /\ x.v # <<>>
ObjectElements(a) == SelectSeq(a, IsObject)

\* raw.data when that is an object, raw otherwise
ClaimedContainer(raw) ==
    IF HasKey(raw, "data") /\ IsObject(raw.v["data"]) THEN raw.v["data"] ELSE raw

\* the one array the items are taken from
ChosenArray(raw, K) ==
    IF IsArray(raw) THEN raw.v
    ELSE LET c == ClaimedContainer(raw)
         IN  IF HasKey(c, K) /\ IsArray(c.v[K]) THEN c.v[K].v
             ELSE IF HasKey(c, "items") /\ IsArray(c.v["items"]) THEN c.v["items"].v
             ELSE <<>>

\* the value under key k, None when raw has no such key
Field(raw, k) == IF HasKey(raw, k) THEN raw.v[k] ELSE None

PageParsed == parsed.op = "_parse_paginated"
ItemParsed == parsed.op = "_parse_item"

\* C7: _parse_paginated returns a page and never raises, whatever the JSON input
\* and the collection key; for a top-level number, string, null or boolean the
\* page has no items and no cursor.
C7_NeverRaises ==
    PageParsed =>
        /\ Returned(parsed.out)
        /\ (~IsObject(data) /\ ~IsArray(data)
                => parsed.out.value = [items |-> <<>>, next_cursor |-> None])

C7_Witness ==
    /\ PageParsed
    /\ data \in Scalars
    /\ parsed.out = Return([items |-> <<>>, next_cursor |-> None])

\* C8: the items of the page are exactly the object-valued elements, in their
\* original order, of the chosen array: the input itself when it is an array,
\* else container[K] when present and an array, else container["items"] when
\* present and an array, else nothing.
C8_ItemsOfChosenArray ==
    PageParsed =>
        /\ Returned(parsed.out)
        /\ parsed.out.value.items = ObjectElements(ChosenArray(data, key))

\* the fallback to "items" is taken past a collection key that holds an array
\* in another envelope shape, and a non-object element is dropped
C8_Witness ==
    /\ PageParsed
    /\ IsObject(data)
    /\ HasKey(ClaimedContainer(data), key)
    /\ ~IsArray(ClaimedContainer(data).v[key])
    /\ HasKey(ClaimedContainer(data), "items")
    /\ key # "items"
    /\ Len(parsed.out.value.items) = 2
    /\ Len(ChosenArray(data, key)) = 3

\* C9 as stated: for an object input next_cursor is the container's nextCursor
\* when that is a non-empty string, otherwise the container's cursor when that
\* is a non-empty string, otherwise absent.
C9_AsStated ==
    PageParsed /\ IsObject(data) =>
        LET c == ClaimedContainer(data)
            n == Field(c, "nextCursor")
            k == Field(c, "cursor")
        IN  parsed.out.value.next_cursor =
                IF NonEmptyString(n) THEN n
                ELSE IF NonEmptyString(k) THEN k
                ELSE None

\* C9 amended: for an object input next_cursor is the container's nextCursor
\* when that is a non-empty string; the container's cursor, when that is a
\* non-empty string, only if nextCursor is missing or falsy (null, false, 0,
\* 0.0, "", [], {}); and absent otherwise, so a truthy nextCursor that is no
\* string hides a valid cursor.  Every page's next_cursor is absent or a
\* non-empty string, and absent for a top-level array.
C9_CursorFallback ==
    PageParsed =>
        /\ Returned(parsed.out)
        /\ \/ parsed.out.value.next_cursor = None
           \/ NonEmptyString(parsed.out.value.next_cursor)
        /\ IsArray(data) => parsed.out.value.next_cursor = None
        /\ IsObject(data) =>
             LET c == ClaimedContainer(data)
                 n == Field(c, "nextCursor")
                 k == Field(c, "cursor")
             IN  parsed.out.value.next_cursor =
                     IF NonEmptyString(n) THEN n
                     ELSE IF ~Truthy(n) /\ NonEmptyString(k) THEN k
                     ELSE None

\* a truthy nextCursor that is no string, next to a valid cursor
C9_Witness ==
    /\ PageParsed
    /\ IsObject(data)
    /\ Field(ClaimedContainer(data), "nextCursor") = JInt(5)
    /\ NonEmptyString(Field(ClaimedContainer(data), "cursor"))
    /\ parsed.out.value.next_cursor = None

\* C10: _parse_item follows a fixed precedence: raw[K] when raw is an object
\* and raw[K] is an object; else, when raw.data is an object, raw.data[K] if
\* that is an object and raw.data otherwise; else raw itself when it is an
\* object; and a MochiAPIError when raw is no object.
C10_ItemPrecedence ==
    ItemParsed =>
        parsed.out =
            IF HasKey(data, key) /\ IsObject(data.v[key])
                THEN Return(data.v[key])
            ELSE IF HasKey(data, "data") /\ IsObject(data.v["data"])
                THEN IF HasKey(data.v["data"], key) /\ IsObject(data.v["data"].v[key])
                     THEN Return(data.v["data"].v[key])
                     ELSE Return(data.v["data"])
            ELSE IF IsObject(data)
                THEN Return(data)
            ELSE Raise("MochiAPIError", "Unexpected response format from Mochi API")

\* raw[K] and raw.data[K] are both objects and differ: the top-level one wins
C10_Witness ==
    /\ ItemParsed
    /\ key = "deck"
    /\ HasKey(data, "deck") /\ IsObject(data.v["deck"])
    /\ HasKey(data, "data") /\ HasKey(data.v["data"], "deck")
    /\ IsObject(data.v["data"].v["deck"])
    /\ data.v["data"].v["deck"] # data.v["deck"]
    /\ parsed.out = Return(data.v["deck"])

-----------------------------------------------------------------------------
(* Properties of call_tool and read_resource *)

WriteToolNames == {"create_deck", "update_deck", "delete_deck",
                   "create_note", "update_note", "delete_note"}
ReadToolNames == {"list_decks", "get_deck", "list_notes", "get_note"}

\* C1: in read-only mode a call_tool invocation that names one of the six write
\* operations fails with the "Unknown tool" error and issues no upstream
\* request, whatever its arguments.
C1_WriteRefusedWhenReadOnly ==
    handler = "call_tool" /\ read_only /\ tool_name \in WriteToolNames =>
        /\ pc = "done"
        /\ result.kind = "raise"
        /\ result.exc = "MochiAPIError"
        /\ result.message.text = "Unknown tool"
        /\ requests = <<>>

\* delete_note with a valid note_id is refused in read-only mode
C1_Witness ==
    /\ handler = "call_tool"
    /\ read_only
    /\ tool_name = "delete_note"
    /\ HasKey(arguments, "note_id") /\ arguments.v["note_id"] = Str_n1
    /\ result.kind = "raise"
    /\ requests = <<>>

\* the string fields and the object fields each tool requires
RequiredStrings(name) ==
    CASE name \in {"get_deck", "update_deck", "delete_deck", "create_note"} -> {"deck_id"}
      [] name \in {"get_note", "update_note", "delete_note"} -> {"note_id"}
      [] name = "create_deck" -> {"name"}
      [] OTHER -> {}
RequiredObjects(name) ==
    IF name \in {"update_deck", "create_note", "update_note"} THEN {"fields"} ELSE {}

\* the tools the server offers in its mode
Offered(name) == name \in ReadToolNames \/ (~read_only /\ name \in WriteToolNames)

MissingOrNot(type, args, field) == ~HasKey(args, field) \/ args.v[field].t # type

\* C5 as stated: a call_tool invocation of an offered tool in which a required
\* string field or a required object field is missing or of the wrong type
\* fails with a validation error before any upstream call: no request is issued.
C5_AsStated ==
    /\ handler = "call_tool"
    /\ Offered(tool_name)
    /\ \/ \E f \in RequiredStrings(tool_name) : MissingOrNot("str", arguments, f)
       \/ \E f \in RequiredObjects(tool_name) : MissingOrNot("dict", arguments, f)
    => /\ pc = "done"
       /\ result.kind = "raise"
       /\ result.exc = "ValueError"
       /\ requests = <<>>

\* C6: a call_tool invocation and a read_resource invocation issue at most one
\* upstream request, whether they succeed or fail; a failed request is not
\* issued again.
C6_AtMostOneRequest ==
    handler \in {"call_tool", "read_resource"} => Len(requests) <= 1

\* the one request of a call_tool invocation failed upstream and the
\* invocation ended with that failure, the request not having been repeated
C6_Witness ==
    /\ handler = "call_tool"
    /\ pc = "done"
    /\ Len(requests) = 1
    /\ result.kind = "raise"
    /\ result.exc = "MochiAPIError"
    /\ result.message.status = 500

-----------------------------------------------------------------------------
(* server.py: the resource catalog *)

_DECK_URI_PREFIX == MOCHI \o <<":", "/", "/">> \o DECK \o <<"/">>
_MAX_DECK_RESOURCES == 500

\* server.py:352-355, what one candidate value contributes
identifier_from(value) ==
    IF IsStr(value) /\ Truthy(value) THEN value
    ELSE IF IsInt(value) THEN JStr(PyStr(value))
    ELSE None

_deck_identifier(deck) ==
    LET hits == SelectSeq(<<"id", "uuid", "slug">>,
                          LAMBDA k : identifier_from(Get(deck, k)) # None)
    IN  IF hits = <<>> THEN None ELSE identifier_from(Get(deck, Head(hits)))

\* types.Resource
Resource(name, u, description, annotations) ==
    [name |-> name, uri |-> u, description |-> description, annotations |-> annotations]

_deck_to_resource(deck) ==
    LET identifier == _deck_identifier(deck)
        name == PyStr(PyOr(PyOr(Get(deck, "name"), Get(deck, "title")), identifier))
        description == Get(deck, "description")
    IN  IF ~Truthy(identifier)
        THEN Raise("MochiAPIError", "Deck payload is missing an identifier")
        ELSE Return(Resource(JStr(name),
                             _DECK_URI_PREFIX \o identifier.v,
                             IF IsStr(description) THEN description ELSE None,
                             IF Truthy(description) THEN JFloat(5) ELSE None))

\* server.py:56-58, the loop over one page: what it appends, or what it raises
page_resources(items) ==
    LET kept == SelectSeq(items, LAMBDA deck : Truthy(_deck_identifier(deck)))
        made == [i \in 1..Len(kept) |-> _deck_to_resource(kept[i])]
    IN  IF \E i \in 1..Len(made) : Raised(made[i])
        THEN made[CHOOSE i \in 1..Len(made) :
                    Raised(made[i]) /\ \A j \in 1..(i - 1) : ~Raised(made[j])]
        ELSE Return([i \in 1..Len(made) |-> made[i].value])

\* resources without the cut of server.py:63
uncut(rs) == rs

\* server.py:63, resources[:_MAX_DECK_RESOURCES]
cut(rs) ==
    IF Len(rs) > _MAX_DECK_RESOURCES THEN SubSeq(rs, 1, _MAX_DECK_RESOURCES) ELSE rs

\* page_is_last without the test of the accumulated count
page_is_last_no_cap(page, rs) == ~Truthy(page.next_cursor)

\* server.py:59
page_is_last(page, rs) ==
    ~Truthy(page.next_cursor) \/ Len(rs) >= _MAX_DECK_RESOURCES

\* a failed page swallowed: the catalog built so far is returned
page_failure_partial(raised, rs) == Return(cut(rs))

\* server.py:55, list_decks raised: nothing catches it, list_resources raises it
page_failure(raised, rs) == raised

-----------------------------------------------------------------------------
(* The catalog loop against an upstream that answers page by page *)

FullPageSize == 200
MixedPageSize == 300
ArrayPageSize == 300
MaxLog == 2

\* a deck with an identifier under "id", a number or a string in turn
FullItem(i) ==
    IF i % 2 = 1
    THEN JObj([id |-> JInt(i), name |-> JStr(<<"B">>)])
    ELSE JObj([id |-> JStr(<<"d">> \o DecimalDigits(i)), description |-> JStr(<<"e">>)])

\* every third deck has no identifier, the others have it under uuid or slug
MixedItem(i) ==
    CASE i % 3 = 0 -> JObj([id |-> JStr(<<>>), slug |-> None, name |-> JStr(<<"B">>)])
      [] i % 3 = 1 -> JObj([id |-> None, uuid |-> JStr(<<"u">> \o DecimalDigits(i))])
      [] i % 3 = 2 -> JObj([slug |-> JStr(<<"s">> \o DecimalDigits(i)),
                            title |-> JStr(<<"T">>)])

FullPage == JArr([i \in 1..FullPageSize |-> FullItem(i)])
MixedPage == JArr([i \in 1..MixedPageSize |-> MixedItem(i)])
ArrayPage == JArr([i \in 1..ArrayPageSize |-> FullItem(1000 + i)])
BlankPage == JArr(<<JObj([name |-> JStr(<<"B">>)]), JInt(7), JObj([id |-> JStr(<<>>)])>>)
\* decks whose identifier is a boolean, a string with "?" or "/", a number
\* under uuid, next to decks that have none
OddPage ==
    JArr(<<JObj([id |-> JStr(<<"a", "?", "b">>)]),
           JObj([id |-> JBool(TRUE), name |-> JStr(<<"B">>)]),
           JObj([id |-> JFloat(15)]),
           JObj([id |-> None, uuid |-> JInt(12)]),
           JObj([id |-> JStr(<<"/", "x">>), slug |-> JStr(<<"s", "1">>)])>>)

\* what the upstream may put where the next cursor goes
PageCursors == {Absent, JStr(<<"c", "1">>), JStr(<<"c", "2">>)}

PageBodies ==
    { MkObj([decks |-> JArr(<<>>), nextCursor |-> c]) : c \in PageCursors }
    \cup { MkObj([decks |-> BlankPage, cursor |-> c]) : c \in PageCursors }
    \cup { JObj([data |-> MkObj([decks |-> FullPage, cursor |-> c])]) : c \in PageCursors }
    \cup { MkObj([decks |-> MixedPage, nextCursor |-> c]) : c \in PageCursors }
    \cup { ArrayPage, JInt(42), JObj([decks |-> OddPage]) }

PageResponses ==
    { HTTPError,
      Response(500, JObj([error |-> JStr(<<"N", "o">>)])),
      Response(404, NotJson(<<"o", "o", "p", "s">>)),
      Response(200, NotJson(<<>>)),
      Response(302, JObj([decks |-> BlankPage])) }
    \cup { Response(200, b) : b \in PageBodies }

\* the deck items an entry can be made of: one of id, uuid, slug holds a
\* non-empty string or an integer
Identifiable(item) ==
    \E k \in {"id", "uuid", "slug"} :
        HasKey(item, k) /\ (NonEmptyString(item.v[k]) \/ item.v[k].t \in {"int", "bool"})

\* the request log keeps the last MaxLog requests of the invocation
Logged(rs) == IF Len(rs) > MaxLog THEN SubSeq(rs, Len(rs) - MaxLog + 1, Len(rs)) ELSE rs

\* the framework calls list_resources(): server.py:51-55 up to the first await
ListResources ==
    /\ pc = "idle"
    /\ handler' = "list_resources"
    /\ resources' = <<>>
    /\ cursor' = None
    /\ pending' = ListDecksCall(None, JInt(200))
    /\ requests' = Logged(requests_of(ListDecksCall(None, JInt(200))))
    /\ inflight' = Len(requests_of(ListDecksCall(None, JInt(200))))
    /\ pc' = "await"
    /\ fetched' = <<>>
    /\ outcome' = NoResult
    /\ answered' = NoResponse
    /\ result' = NoResult
    /\ UNCHANGED <<read_only, tool_name, arguments, uri>>
    /\ UNCHANGED <<normVars, taskVars>>

\* list_decks raised: list_resources ends
PageFails(raised) ==
    /\ result' = page_failure(raised, resources)
    /\ pc' = "done"
    /\ pending' = NoCall
    /\ inflight' = inflight - 1
    /\ UNCHANGED <<resources, cursor, requests, fetched>>

\* list_decks returned a page: server.py:56-63
PageArrives(page) ==
    LET made == page_resources(page.items)
        grown == resources \o made.value
    IN  /\ fetched' = fetched \o SelectSeq(page.items, Identifiable)
        /\ IF Raised(made)
           THEN /\ result' = made
                /\ pc' = "done"
                /\ pending' = NoCall
                /\ inflight' = inflight - 1
                /\ UNCHANGED <<resources, cursor, requests>>
           ELSE /\ resources' = grown
                /\ IF page_is_last(page, grown)
                   THEN /\ result' = Return(cut(grown))
                        /\ pc' = "done"
                        /\ pending' = NoCall
                        /\ inflight' = inflight - 1
                        /\ UNCHANGED <<cursor, requests>>
                   ELSE /\ cursor' = page.next_cursor
                        /\ pending' = ListDecksCall(page.next_cursor, JInt(200))
                        /\ requests' =
                             Logged(requests \o
                                    requests_of(ListDecksCall(page.next_cursor, JInt(200))))
                        /\ inflight' =
                             inflight - 1
                             + Len(requests_of(ListDecksCall(page.next_cursor, JInt(200))))
                        /\ pc' = "await"
                        /\ result' = NoResult

\* the transport answers the page request list_resources is suspended in
ListResourcesResumes ==
    /\ pc = "await"
    /\ handler = "list_resources"
    /\ \E response \in PageResponses :
        /\ answered' = response
        /\ outcome' = Outcome(client_result(pending, response))
        /\ IF Raised(client_result(pending, response))
           THEN PageFails(client_result(pending, response))
           ELSE PageArrives(client_result(pending, response).value)
    /\ UNCHANGED <<read_only, handler, tool_name, arguments, uri>>
    /\ UNCHANGED <<normVars, taskVars>>

CatalogNext ==
    \/ ListResources
    \/ ListResourcesResumes
    \/ Finish

CatalogSpec == Init /\ [][CatalogNext]_vars

\* the upstream answers every request it is sent
CatalogFairSpec ==
    CatalogSpec /\ WF_vars(ListResourcesResumes)

-----------------------------------------------------------------------------
(* Properties of list_resources *)

CatalogReturned ==
    handler = "list_resources" /\ pc = "done" /\ result.kind = "return"

\* C2: list_resources returns at most 500 entries, and exactly 500 whenever the
\* pages it fetched hold at least 500 deck items with a resolvable identifier,
\* also when the last page pushed the accumulated count above 500.
C2_CatalogCapped ==
    CatalogReturned =>
        /\ Len(result.value) <= 500
        /\ Len(fetched) >= 500 => Len(result.value) = 500

\* the last page pushed the count above 500 and exactly 500 entries came back
C2_Witness ==
    /\ CatalogReturned
    /\ Len(fetched) > 500
    /\ Len(resources) > 500
    /\ Len(result.value) = 500

\* C3: when a list_decks page request of list_resources fails, on the first
\* page or a later one, list_resources ends with that error, returns no
\* catalog, and has no page request outstanding.
C3_PageFailureAborts ==
    handler = "list_resources" /\ outcome.kind = "raise" =>
        /\ pc = "done"
        /\ result = outcome
        /\ pending = NoCall

\* a later page failed after entries had been accumulated
C3_Witness ==
    /\ handler = "list_resources"
    /\ outcome.kind = "raise"
    /\ Len(resources) >= FullPageSize
    /\ result.kind = "raise"
    /\ result.exc = "MochiAPIError"

\* C4 as stated: with an upstream that answers every request, list_resources
\* ends after finitely many list_decks requests.
C4_AsStated ==
    (handler = "list_resources" /\ pc = "await") ~> (pc = "done")

-----------------------------------------------------------------------------
(* api.py: _parse_item on the dict objects response.json() made *)

\* where a dict lives: the dicts of the parsed JSON are told apart by their path
\* from the root, the dict that dict() makes lives apart from all of them
JsonAddress(path) == <<"json">> \o path
DictAddress == <<"dict">>

\* a reference to the dict at address a
Ref(a) == [t |-> "ref", v |-> a]
IsRef(x) == x.t = "ref"

\* the paths of the dicts nested in d through dict values
RECURSIVE ObjectPaths(_)
ObjectPaths(d) ==
    IF ~IsMapping(d) THEN {}
    ELSE {<<>>} \cup UNION { { <<k>> \o p : p \in ObjectPaths(d.v[k]) } : k \in DOMAIN d.v }

RECURSIVE At(_, _)
At(d, path) == IF path = <<>> THEN d ELSE At(d.v[Head(path)], Tail(path))

\* the dicts json.loads makes of d: a dict holds references to the dicts in it
Load(d) ==
    [a \in { JsonAddress(p) : p \in ObjectPaths(d) } |->
        [k \in DOMAIN At(d, Tail(a)).v |->
            IF IsMapping(At(d, Tail(a)).v[k]) THEN Ref(a \o <<k>>)
            ELSE At(d, Tail(a)).v[k]]]

\* what response.json() returns: a reference to the root dict, or the value
Root(d) == IF IsMapping(d) THEN Ref(JsonAddress(<<>>)) ELSE d

\* the value a reference stands for, the dicts it reaches included
RECURSIVE Deref(_, _)
Deref(h, x) ==
    IF IsRef(x) THEN JObj([k \in DOMAIN h[x.v] |-> Deref(h, h[x.v][k])]) ELSE x

\* x.get(k) for a reference x
GetIn(h, x, k) == IF k \in DOMAIN h[x.v] THEN h[x.v][k] ELSE None

\* dict(x) handing back x itself
dict_alias(h, x) == [heap |-> h, out |-> Return(x)]

\* dict(x): a new dict with the keys and the values of x
dict(h, x) ==
    [heap |-> [a \in DOMAIN h \cup {DictAddress} |->
                  IF a = DictAddress THEN h[x.v] ELSE h[a]],
     out |-> Return(Ref(DictAddress))]

\* _parse_item with the dicts it reads and the dict it returns: isinstance(x,
\* Mapping) holds of the references
_parse_item_in(h, d, k) ==
    IF IsRef(d) /\ IsRef(GetIn(h, d, k)) THEN dict(h, GetIn(h, d, k))
    ELSE IF IsRef(d) /\ IsRef(GetIn(h, d, "data")) THEN
        IF IsRef(GetIn(h, GetIn(h, d, "data"), k))
        THEN dict(h, GetIn(h, GetIn(h, d, "data"), k))
        ELSE dict(h, GetIn(h, d, "data"))
    ELSE IF IsRef(d) THEN dict(h, d)
    ELSE [heap |-> h,
          out |-> Raise("MochiAPIError", "Unexpected response format from Mochi API")]

\* x[k] = v for a reference x
SetItem(h, x, k, v) ==
    [a \in DOMAIN h |->
        IF a = x.v THEN [j \in DOMAIN h[a] \cup {k} |-> IF j = k THEN v ELSE h[a][j]]
        ELSE h[a]]

\* del x[k] for a reference x
DelItem(h, x, k) ==
    [a \in DOMAIN h |->
        IF a = x.v THEN [j \in DOMAIN h[a] \ {k} |-> h[a][j]] ELSE h[a]]

-----------------------------------------------------------------------------
(* The item normaliser and a caller that writes to the dict it was returned *)

MaxWrites == 2

CopyInputs == ItemInputs \cup {JInt(42), JArr(<<Obj1>>), None}
CopyKeys == {"deck", "data"}
WriteKeys == {"id", "deck", "zz"}
WriteValues == {JInt(1), None}

CopyInit ==
    /\ GatewayUnused
    /\ TasksUnused
    /\ data \in CopyInputs
    /\ key \in CopyKeys
    /\ parsed = NotParsed
    /\ heap = Load(data)

\* MochiClient._parse_item(data, key) on the parsed JSON
ParseItemObject ==
    /\ parsed = NotParsed
    /\ heap' = _parse_item_in(heap, Root(data), key).heap
    /\ parsed' = [op |-> "_parse_item",
                  out |-> _parse_item_in(heap, Root(data), key).out,
                  writes |-> 0]
    /\ UNCHANGED <<data, key>>
    /\ UNCHANGED <<gatewayVars, taskVars>>

\* the caller adds or replaces a top-level key of the dict it was returned
WriteItemKey ==
    /\ parsed.op = "_parse_item"
    /\ Returned(parsed.out)
    /\ parsed.writes < MaxWrites
    /\ \E k \in WriteKeys, v \in WriteValues :
        heap' = SetItem(heap, parsed.out.value, k, v)
    /\ parsed' = [parsed EXCEPT !.writes = @ + 1]
    /\ UNCHANGED <<data, key>>
    /\ UNCHANGED <<gatewayVars, taskVars>>

\* the caller removes a top-level key of the dict it was returned
DeleteItemKey ==
    /\ parsed.op = "_parse_item"
    /\ Returned(parsed.out)
    /\ parsed.writes < MaxWrites
    /\ \E k \in DOMAIN heap[parsed.out.value.v] :
        heap' = DelItem(heap, parsed.out.value, k)
    /\ parsed' = [parsed EXCEPT !.writes = @ + 1]
    /\ UNCHANGED <<data, key>>
    /\ UNCHANGED <<gatewayVars, taskVars>>

CopyNext == ParseItemObject \/ WriteItemKey \/ DeleteItemKey

CopySpec == CopyInit /\ [][CopyNext]_vars

\* C11: the dict _parse_item returns is none of the dicts of its input, in every
\* branch, and whatever top-level keys the caller then adds to it, replaces in
\* it or removes from it, every dict of the input (the raw value, its nested
\* item and data objects) keeps its keys and values.
C11_ResultIsCopy ==
    ItemParsed /\ Returned(parsed.out) =>
        /\ parsed.out.value.v \notin DOMAIN Load(data)
        /\ \A a \in DOMAIN Load(data) : heap[a] = Load(data)[a]
        /\ Deref(heap, Root(data)) = data

\* the nested item raw[K] was returned and the caller has changed what it got
C11_Witness ==
    /\ ItemParsed
    /\ Returned(parsed.out)
    /\ parsed.writes >= 1
    /\ HasKey(data, key) /\ IsObject(data.v[key])
    /\ Deref(heap, parsed.out.value) # data.v[key]
    /\ Deref(heap, Ref(JsonAddress(<<key>>))) = data.v[key]

-----------------------------------------------------------------------------
(* Properties of the client operations behind call_tool and read_resource *)

\* C12 as stated: whichever client operation a call_tool or read_resource
\* invocation awaits, an upstream response whose status code is not in 200..299
\* makes the operation raise a MochiAPIError that carries the status code, so
\* that no page or item is returned.
C12_AsStated ==
    /\ handler \in {"call_tool", "read_resource"}
    /\ answered.kind = "response"
    /\ answered.status_code \notin 200..299
    => /\ outcome.kind = "raise"
       /\ outcome.exc = "MochiAPIError"
       /\ outcome.message.status = answered.status_code

\* C13: in write mode a create_note invocation whose deck_id is a non-empty
\* string and whose fields is an object sends one POST /notes whose JSON payload
\* has deckId equal to the deck_id argument, also when fields holds another
\* deckId, and has exactly the other keys of fields with the values of fields.
C13_DeckIdInjected ==
    /\ handler = "call_tool"
    /\ ~read_only
    /\ tool_name = "create_note"
    /\ HasKey(arguments, "deck_id") /\ NonEmptyString(arguments.v["deck_id"])
    /\ HasKey(arguments, "fields") /\ IsObject(arguments.v["fields"])
    => /\ Len(requests) = 1
       /\ requests[1].method = "POST"
       /\ requests[1].path = NOTES
       /\ IsObject(requests[1].json)
       /\ DOMAIN requests[1].json.v = DOMAIN arguments.v["fields"].v \cup {"deckId"}
       /\ requests[1].json.v["deckId"] = arguments.v["deck_id"]
       /\ \A k \in DOMAIN arguments.v["fields"].v \ {"deckId"} :
            requests[1].json.v[k] = arguments.v["fields"].v[k]

\* fields carries a deckId of its own, which the payload does not keep
C13_Witness ==
    /\ handler = "call_tool"
    /\ ~read_only
    /\ tool_name = "create_note"
    /\ HasKey(arguments, "deck_id") /\ arguments.v["deck_id"] = Str_d1
    /\ HasKey(arguments, "fields") /\ HasKey(arguments.v["fields"], "deckId")
    /\ arguments.v["fields"].v["deckId"] # Str_d1
    /\ Len(requests) = 1
    /\ requests[1].json.v["deckId"] = Str_d1
    /\ requests[1].json.v["front"] = arguments.v["fields"].v["front"]

\* the names list_tools returned
Advertised == { result.value[i] : i \in 1..Len(result.value) }

\* call_tool turned the name down as an unknown tool
Refused ==
    /\ pc = "done"
    /\ result.kind = "raise"
    /\ result.exc = "MochiAPIError"
    /\ result.message.text = "Unknown tool"

\* C14: list_tools returns exactly list_decks, get_deck, list_notes and
\* get_note in read-only mode and those four plus the six write tools in write
\* mode, each once; call_tool turns a name down as unknown exactly when it is
\* not in that set; and no step of any handler changes the mode.
C14_ToolSetsAgree ==
    /\ [](handler = "list_tools" =>
            /\ result.kind = "return"
            /\ Advertised = { n \in ReadToolNames \cup WriteToolNames : Offered(n) }
            /\ Len(result.value) = Cardinality(Advertised))
    /\ [](handler = "call_tool" => (Refused <=> ~Offered(tool_name)))
    /\ [][read_only' = read_only]_vars

\* list_tools in write mode lists the ten tools
C14_Witness ==
    /\ handler = "list_tools"
    /\ ~read_only
    /\ Len(result.value) = 10
    /\ "delete_note" \in Advertised
    /\ "list_decks" \in Advertised

-----------------------------------------------------------------------------
(* Properties of read_resource, stated on the text of the URI *)

\* the characters of u from position i up to the first one in stops
RECURSIVE Upto(_, _, _)
Upto(u, i, stops) ==
    IF i > Len(u) \/ u[i] \in stops THEN <<>>
    ELSE <<u[i]>> \o Upto(u, i + 1, stops)

\* the scheme: what precedes the first ":", when that is a name (a letter, then
\* letters, digits, "+", "-", "."), in lower case; empty when there is none
UriScheme(u) ==
    LET name == Upto(u, 1, {":"})
    IN  IF /\ Len(name) < Len(u)
           /\ name # <<>>
           /\ IsAlpha(name[1])
           /\ \A i \in 1..Len(name) : IsAlpha(name[i]) \/ IsDigit(name[i])
                                       \/ name[i] \in {"+", "-", "."}
        THEN Lower(name) ELSE <<>>

\* where the part after the scheme starts
UriAfterScheme(u) == IF UriScheme(u) = <<>> THEN 1 ELSE Len(UriScheme(u)) + 2

UriHasAuthority(u) ==
    /\ UriAfterScheme(u) + 1 <= Len(u)
    /\ u[UriAfterScheme(u)] = "/"
    /\ u[UriAfterScheme(u) + 1] = "/"

\* the authority: what follows "//" up to the next "/", "?" or "#"
UriAuthority(u) ==
    IF UriHasAuthority(u) THEN Upto(u, UriAfterScheme(u) + 2, {"/", "?", "#"}) ELSE <<>>

\* the path: what follows the authority up to the next "?" or "#"
UriPath(u) ==
    IF UriHasAuthority(u)
    THEN Upto(u, UriAfterScheme(u) + 2 + Len(UriAuthority(u)), {"?", "#"})
    ELSE Upto(u, UriAfterScheme(u), {"?", "#"})

\* the identifier: the path without its leading slashes
RECURSIVE WithoutLeadingSlashes(_)
WithoutLeadingSlashes(path) ==
    IF path # <<>> /\ path[1] = "/" THEN WithoutLeadingSlashes(Tail(path)) ELSE path

UriIdentifier(u) == WithoutLeadingSlashes(UriPath(u))

UriKinds == {<<"d", "e", "c", "k">>, <<"n", "o", "t", "e">>}

UriIsBad(u) ==
    \/ UriScheme(u) # <<"m", "o", "c", "h", "i">>
    \/ UriAuthority(u) = <<>>
    \/ UriIdentifier(u) = <<>>
    \/ UriAuthority(u) \notin UriKinds

\* C15: read_resource raises without any upstream request when the scheme of
\* the URI is missing or is not mochi, when the authority is missing, when the
\* identifier (the path without its leading slashes) is empty, or when the
\* authority is neither deck nor note; otherwise it issues exactly one request,
\* GET /decks/<identifier> for deck and GET /notes/<identifier> for note.
C15_ReadResourceUri ==
    handler = "read_resource" =>
        IF UriIsBad(uri)
        THEN /\ pc = "done"
             /\ result.kind = "raise"
             /\ requests = <<>>
             /\ answered = NoResponse
        ELSE /\ Len(requests) = 1
             /\ requests[1].method = "GET"
             /\ requests[1].path =
                   (IF UriAuthority(uri) = <<"d", "e", "c", "k">>
                    THEN <<"/", "d", "e", "c", "k", "s", "/">>
                    ELSE <<"/", "n", "o", "t", "e", "s", "/">>) \o UriIdentifier(uri)
             /\ requests[1].json = Absent

\* a note URI with a query was read: one request for the identifier of the path
C15_Witness ==
    /\ handler = "read_resource"
    /\ uri = <<"m", "o", "c", "h", "i", ":", "/", "/", "n", "o", "t", "e",
               "/", "d", "1", "?", "q">>
    /\ pc = "done"
    /\ Len(requests) = 1
    /\ requests[1].path = <<"/", "n", "o", "t", "e", "s", "/", "d", "1">>

-----------------------------------------------------------------------------
(* Properties of the page requests of list_resources *)

\* the next cursor a response carries: of a JSON object, the nextCursor of its
\* container when that is a non-empty string, the cursor when nextCursor is
\* missing or falsy; none otherwise
CarriedCursor(response) ==
    IF response.kind = "response" /\ IsObject(response.body)
    THEN LET c == ClaimedContainer(response.body)
         IN  IF NonEmptyString(Field(c, "nextCursor")) THEN Field(c, "nextCursor")
             ELSE IF ~Truthy(Field(c, "nextCursor")) /\ NonEmptyString(Field(c, "cursor"))
             THEN Field(c, "cursor")
             ELSE None
    ELSE None

\* GET /decks with the page size 200 and the given cursor, or with no cursor
PageRequest(c) ==
    [method |-> "GET", path |-> <<"/", "d", "e", "c", "k", "s">>,
     params |-> IF c = None THEN JObj([limit |-> JInt(200)])
                ELSE JObj([cursor |-> c, limit |-> JInt(200)]),
     json |-> Absent]

\* C16: the page requests of one list_resources invocation form a chain.  The
\* first carries no cursor and the page size 200.  A further request is issued
\* only in the step in which the response to the previous one arrives, only if
\* that response carries a non-empty next cursor and fewer than 500 entries are
\* accumulated, and it carries exactly that cursor and the page size 200.  At
\* most one page request is unanswered at any time.
C16_PageRequestsChain ==
    /\ [](handler = "list_resources" => inflight <= 1)
    /\ [][handler' = "list_resources" /\ pc' = "await" =>
            IF handler # "list_resources"
            THEN /\ requests' = <<PageRequest(None)>>
                 /\ inflight' = 1
            ELSE /\ inflight = 1
                 /\ answered' # NoResponse
                 /\ NonEmptyString(CarriedCursor(answered'))
                 /\ Len(resources') < 500
                 /\ requests'[Len(requests')] = PageRequest(CarriedCursor(answered'))
                 /\ cursor' = CarriedCursor(answered')
                 /\ inflight' = 1]_vars

\* a second page was requested with the cursor of the first, entries in hand
C16_Witness ==
    /\ handler = "list_resources"
    /\ pc = "await"
    /\ Len(resources) \in 1..499
    /\ answered.kind = "response"
    /\ CarriedCursor(answered) = JStr(<<"c", "2">>)
    /\ Len(requests) = 2
    /\ requests[1] = PageRequest(None)
    /\ requests[2] = PageRequest(JStr(<<"c", "2">>))
    /\ inflight = 1

-----------------------------------------------------------------------------
(* A deck item, the catalog entry made of it, and read_resource on its URI *)

IdValues ==
    { Absent, None, JStr(<<>>), JStr(<<"d", "1">>), JStr(<<"a", "?", "b">>),
      JStr(<<"/", "x">>), JStr(<<"a", "#", "b">>), JStr(<<"a", "/", "b">>),
      JStr(<<"?">>), JInt(7), JInt(0), JInt(-3), JBool(TRUE), JBool(FALSE),
      JFloat(15), JArr(<<>>), EmptyDict }
UuidValues == { Absent, None, JStr(<<>>), JStr(<<"u", "1">>), JInt(12), JBool(TRUE) }
SlugValues == { Absent, JStr(<<"s", "1">>), JInt(0), JArr(<<JInt(1)>>) }

Decks ==
    { MkObj([id |-> i, uuid |-> u, slug |-> s, name |-> n, description |-> e]) :
        i \in IdValues, u \in UuidValues, s \in SlugValues,
        n \in {Absent, JStr(<<"B">>)}, e \in {Absent, JStr(<<"e">>)} }

ResourceInit ==
    /\ GatewayUnused
    /\ TasksUnused
    /\ data \in Decks
    /\ key = "none"
    /\ parsed = NotParsed
    /\ heap = NoHeap

\* server.py:57, list_resources resolves the identifier of a deck of the page
DeckIdentifier ==
    /\ parsed = NotParsed
    /\ parsed' = [op |-> "_deck_identifier", out |-> Return(_deck_identifier(data))]
    /\ UNCHANGED <<data, key, heap>>
    /\ UNCHANGED <<gatewayVars, taskVars>>

\* server.py:58, list_resources makes the entry of a deck that has an identifier
DeckToResource ==
    /\ parsed.op = "_deck_identifier"
    /\ Truthy(parsed.out.value)
    /\ parsed' = [op |-> "_deck_to_resource", identifier |-> parsed.out.value,
                  out |-> _deck_to_resource(data)]
    /\ UNCHANGED <<data, key, heap>>
    /\ UNCHANGED <<gatewayVars, taskVars>>

\* the framework calls read_resource with the URI of the entry
ReadListedResource ==
    /\ pc = "idle"
    /\ parsed.op = "_deck_to_resource"
    /\ Returned(parsed.out)
    /\ handler' = "read_resource"
    /\ uri' = parsed.out.value.uri
    /\ Begin(read_resource_begin(parsed.out.value.uri))
    /\ UNCHANGED <<read_only, tool_name, arguments>>
    /\ UNCHANGED <<normVars, taskVars>>

ResourceNext ==
    \/ DeckIdentifier
    \/ DeckToResource
    \/ ReadListedResource
    \/ ReadResourceResumes
    \/ Finish

ResourceSpec == ResourceInit /\ [][ResourceNext]_vars

\* the decimal numeral of an integer
DecimalDigit(d) ==
    CASE d = 0 -> "0" [] d = 1 -> "1" [] d = 2 -> "2" [] d = 3 -> "3" [] d = 4 -> "4"
      [] d = 5 -> "5" [] d = 6 -> "6" [] d = 7 -> "7" [] d = 8 -> "8" [] d = 9 -> "9"

RECURSIVE DecimalOf(_)
DecimalOf(n) ==
    IF n < 0 THEN <<"-">> \o DecimalOf(0 - n)
    ELSE IF n < 10 THEN <<DecimalDigit(n)>>
    ELSE DecimalOf(n \div 10) \o <<DecimalDigit(n % 10)>>

\* the identifier a value stands for: a non-empty string itself, an integer as
\* its decimal numeral; nothing for any other value
Candidate(x) ==
    IF NonEmptyString(x) THEN x.v
    ELSE IF x.t = "int" THEN DecimalOf(x.v)
    ELSE <<>>

\* the first candidate among id, uuid and slug, <<>> when there is none
ClaimedIdentifier(item) ==
    IF Candidate(Field(item, "id")) # <<>> THEN Candidate(Field(item, "id"))
    ELSE IF Candidate(Field(item, "uuid")) # <<>> THEN Candidate(Field(item, "uuid"))
    ELSE Candidate(Field(item, "slug"))

\* C18 as stated: the identifier resolved for a deck item is the value of the
\* first of id, uuid, slug that holds a non-empty string or an integer, an
\* integer rendered as its decimal string; an empty string, null or a value of
\* any other type is passed over, and an item with no candidate has no
\* identifier.
C18_AsStated ==
    parsed.op = "_deck_identifier" =>
        parsed.out.value = IF ClaimedIdentifier(data) = <<>> THEN None
                           ELSE JStr(ClaimedIdentifier(data))

-----------------------------------------------------------------------------
(* Properties of the catalog, stated on the deck items the upstream delivered *)

\* the deck items of the fetched pages that have a resolvable identifier
Resolvable(item) == ClaimedIdentifier(item) # <<>>

FirstN(s, n) == IF Len(s) > n THEN SubSeq(s, 1, n) ELSE s

\* the catalog URI of an identifier
CatalogUri(identifier) ==
    <<"m", "o", "c", "h", "i", ":", "/", "/", "d", "e", "c", "k", "/">> \o identifier

\* C17 as stated: the catalog list_resources returns is, entry by entry, made
\* of the first 500 of the deck items of the fetched pages, in fetch order, that
\* have a resolvable identifier: as many entries, in that order, each with the
\* URI of its item's identifier, and none for an item without one.
C17_AsStated ==
    CatalogReturned =>
        /\ Len(result.value) = Len(FirstN(SelectSeq(fetched, Resolvable), 500))
        /\ \A i \in 1..Len(result.value) :
             result.value[i].uri =
                CatalogUri(ClaimedIdentifier(SelectSeq(fetched, Resolvable)[i]))

\* C20 as stated: read_resource on the URI of a catalog entry made of a deck
\* whose resolved identifier is I issues the request of get_deck(I), GET
\* /decks/I, whatever non-empty string I is: the URI parses to the kind deck
\* and to the identifier I itself, also when I starts with or contains "/",
\* "?" or "#".
C20_AsStated ==
    handler = "read_resource" /\ parsed.op = "_deck_to_resource" =>
        /\ uri = CatalogUri(parsed.identifier.v)
        /\ Len(requests) = 1
        /\ requests[1].method = "GET"
        /\ requests[1].path = <<"/", "d", "e", "c", "k", "s", "/">> \o parsed.identifier.v

-----------------------------------------------------------------------------
(* server.py: invocations that interleave at their awaits *)

\* one frame for all invocations, as if resources and cursor were bound once
\* in create_server
frame_of_shared(t) == 1

\* the frame of the invocation that task t runs: server.py:51-52 bind resources
\* and cursor anew in every call of list_resources
frame_of(t) == t

\* the local variables of list_resources
Locals(rs, c) == [resources |-> rs, cursor |-> c]

\* an invocation the framework runs as a task, with what the transport will do
\* with its requests, in order
Invocation(h, name, args, script) ==
    [handler |-> h, tool_name |-> name, arguments |-> args, script |-> script,
     pc |-> "idle", pending |-> NoCall, served |-> 0, overlapped |-> FALSE,
     result |-> NoResult]

\* what the transport does with the next request of the task
NextResponse(task) ==
    IF task.served < Len(task.script) THEN task.script[task.served + 1] ELSE HTTPError

\* the task ends with r, or suspends in a client call
Ended(task, r) == [task EXCEPT !.pc = "done", !.pending = NoCall, !.result = r]
Suspended(task, call) == [task EXCEPT !.pc = "await", !.pending = call]
After(task, step) ==
    IF step.kind = "await" THEN Suspended(task, step.call) ELSE Ended(task, step)

\* the transport has answered the task; midway tells whether another task was
\* suspended in the middle of its loop at that moment
Served(task, midway) ==
    [task EXCEPT !.served = @ + 1, !.overlapped = @ \/ midway]

\* server.py:55-63 from the return of list_decks: the locals as the loop turn
\* leaves them, and then the result of list_resources or its next client call
list_resources_resume(locals, got) ==
    IF Raised(got)
    THEN [locals |-> locals, then |-> page_failure(got, locals.resources)]
    ELSE IF Raised(page_resources(got.value.items))
    THEN [locals |-> locals, then |-> page_resources(got.value.items)]
    ELSE LET grown == locals.resources \o page_resources(got.value.items).value
         IN  IF page_is_last(got.value, grown)
             THEN [locals |-> Locals(grown, locals.cursor), then |-> Return(cut(grown))]
             ELSE [locals |-> Locals(grown, got.value.next_cursor),
                   then |-> Await(ListDecksCall(got.value.next_cursor, JInt(200)))]

-----------------------------------------------------------------------------
(* Two invocations on one server, each with its own upstream answers *)

\* pages of a few decks
PageOne ==
    Response(200, JObj([decks |-> JArr(<<Obj1, JInt(7), Obj2>>),
                        nextCursor |-> JStr(<<"c", "1">>)]))
PageTwo ==
    Response(200, JObj([data |-> JObj([decks |-> JArr(<<JObj([uuid |-> JStr(<<"u", "1">>)])>>)])]))
PageThree ==
    Response(200, JObj([decks |-> JArr(<<JObj([slug |-> JStr(<<"s", "1">>)]), EmptyDict>>),
                        cursor |-> JStr(<<"c", "2">>)]))
PageFull ==
    Response(200, JObj([decks |-> FullPage, nextCursor |-> JStr(<<"c", "1">>)]))

Scripts ==
    { <<PageOne, PageTwo>>,
      <<PageThree, PageOne, PageTwo>>,
      <<PageThree, Response(500, JObj([error |-> JStr(<<"N", "o">>)]))>>,
      <<PageTwo>>,
      <<HTTPError>>,
      <<PageFull, PageFull, PageFull, PageTwo>> }

ListResourcesInvocations ==
    { Invocation("list_resources", "none", EmptyDict, s) : s \in Scripts }

CallToolInvocations ==
    { Invocation("call_tool", "get_deck", JObj([deck_id |-> Str_d1]),
                 <<Response(200, JObj([deck |-> Obj1]))>>),
      Invocation("call_tool", "get_deck", EmptyDict, <<>>),
      Invocation("call_tool", "list_decks", JObj([cursor |-> JStr(<<"c", "1">>)]),
                 <<PageOne>>),
      Invocation("call_tool", "delete_note", JObj([note_id |-> Str_n1]),
                 <<Response(404, JObj([error |-> JStr(<<"N", "o">>)]))>>),
      Invocation("call_tool", "create_note",
                 JObj([deck_id |-> Str_d1, fields |-> JObj([front |-> JStr(<<"x">>)])]),
                 <<Response(200, JObj([note |-> Obj2]))>>) }

ConcurrentInit ==
    /\ read_only \in BOOLEAN
    /\ Idle
    /\ NormUnused
    /\ tasks \in { <<a, b>> : a \in ListResourcesInvocations,
                              b \in ListResourcesInvocations \cup CallToolInvocations }
    /\ frames = <<Locals(<<>>, None), Locals(<<>>, None)>>

\* the framework starts the handler of a task, which runs to its first await
TaskStarts ==
    /\ \E t \in DOMAIN tasks :
        /\ tasks[t].pc = "idle"
        /\ IF tasks[t].handler = "list_resources"
           THEN /\ frames' = [frames EXCEPT ![frame_of(t)] = Locals(<<>>, None)]
                /\ tasks' = [tasks EXCEPT
                               ![t] = Suspended(@, ListDecksCall(None, JInt(200)))]
           ELSE /\ frames' = frames
                /\ tasks' = [tasks EXCEPT
                               ![t] = After(@, call_tool_begin(read_only, @.tool_name,
                                                               @.arguments))]
    /\ UNCHANGED <<gatewayVars, normVars>>

\* the transport answers the request a task is suspended in, and the task runs
\* to its next await or to its end
TaskResumes ==
    /\ \E t \in DOMAIN tasks :
        /\ tasks[t].pc = "await"
        /\ IF tasks[t].handler = "list_resources"
           THEN /\ frames' =
                     [frames EXCEPT ![frame_of(t)] =
                        list_resources_resume(
                            frames[frame_of(t)],
                            client_result(tasks[t].pending, NextResponse(tasks[t]))).locals]
                /\ tasks' =
                     [tasks EXCEPT ![t] =
                        After(Served(@, \E u \in DOMAIN tasks \ {t} :
                                            tasks[u].pc = "await" /\ tasks[u].served >= 1),
                              list_resources_resume(
                                  frames[frame_of(t)],
                                  client_result(tasks[t].pending,
                                                NextResponse(tasks[t]))).then)]
           ELSE /\ frames' = frames
                /\ tasks' =
                     [tasks EXCEPT ![t] =
                        Ended(Served(@, \E u \in DOMAIN tasks \ {t} :
                                            tasks[u].pc = "await" /\ tasks[u].served >= 1),
                              call_tool_resume(
                                  tasks[t].pending,
                                  client_result(tasks[t].pending, NextResponse(tasks[t]))))]
    /\ UNCHANGED <<gatewayVars, normVars>>

ConcurrentNext == TaskStarts \/ TaskResumes

ConcurrentSpec == ConcurrentInit /\ [][ConcurrentNext]_vars

-----------------------------------------------------------------------------
(* Properties of interleaved invocations *)

\* what list_resources returns or raises when it runs from start to end with
\* nothing in between, n answers of the script having been used
RECURSIVE ListResourcesAlone(_, _, _)
ListResourcesAlone(task, n, locals) ==
    LET step == list_resources_resume(
                    locals,
                    client_result(ListDecksCall(locals.cursor, JInt(200)),
                                  NextResponse([task EXCEPT !.served = n])))
    IN  IF step.then.kind = "await"
        THEN ListResourcesAlone(task, n + 1, step.locals)
        ELSE step.then

\* what call_tool returns or raises when it runs alone
CallToolAlone(task) ==
    LET step == call_tool_begin(read_only, task.tool_name, task.arguments)
    IN  IF step.kind = "await"
        THEN call_tool_resume(step.call, client_result(step.call, NextResponse(
                                  [task EXCEPT !.served = 0])))
        ELSE step

RunAlone(task) ==
    IF task.handler = "list_resources"
    THEN ListResourcesAlone(task, 0, Locals(<<>>, None))
    ELSE CallToolAlone(task)

\* C19: two invocations on one server, two of list_resources or one of
\* list_resources and one of call_tool, that suspend at their upstream awaits
\* and are resumed in any order: each ends with exactly the result it has when
\* it runs alone against the same upstream answers, and shows no result before
\* it ends.
C19_NoInterference ==
    \A t \in DOMAIN tasks :
        /\ tasks[t].pc = "done" => tasks[t].result = RunAlone(tasks[t])
        /\ tasks[t].pc # "done" => tasks[t].result = NoResult

\* two list_resources invocations, each resumed while the other was suspended
\* in the middle of its loop, have both returned a catalog of several pages
C19_Witness ==
    /\ DOMAIN tasks = {1, 2}
    /\ \A t \in {1, 2} :
        /\ tasks[t].handler = "list_resources"
        /\ tasks[t].pc = "done"
        /\ tasks[t].overlapped
        /\ tasks[t].served >= 2
        /\ tasks[t].result.kind = "return"
        /\ Len(tasks[t].result.value) >= 3
    /\ tasks[1].result # tasks[2].result

====
